---- MODULE Spec2Model ----
(***************************************************************************)
(* The nucleosome-occupancy engine of                                      *)
(* src/nucleosome_occupancy/calculatensm_multithread.py: the loader of     *)
(* main, the chunk partitioner and the worker pool of                      *)
(* calculate_nsm_occupancy, the kernel evaluator process_chunk and the     *)
(* final sort and write.                                                   *)
(*                                                                         *)
(* Numbers.  Positions are integers.  Weights and scores are fixed-point   *)
(* integers: a weight w stands for the real w, a kernel term for           *)
(* 10^6 * exp(-(d/20)^2/2) rounded to the nearest integer, a score for     *)
(* 10^6 times the real score.  Sums are folded left to right over the      *)
(* masked arrays, as np.sum sees them.                                     *)
(*                                                                         *)
(* The specifications.  Spec is a run of main on an input file whose       *)
(* records are drawn line by line; FairSpec is Spec with the fairness of   *)
(* the pool.  SpecLoad is the loader alone on files of more kinds of       *)
(* records.  SpecPart applies the chunk-size arithmetic of                 *)
(* calculate_nsm_occupancy, with the program's floor of 1000 targets per   *)
(* chunk, to a number of targets and a number of cores.  SpecKernel calls  *)
(* process_chunk on chunks of a single event.  SpecNorm runs the two       *)
(* normalisers of src/nucleosome_occupancy on files the engine writes.     *)
(* In Spec the floor is the bound MinChunk: a run with several chunks      *)
(* needs more targets than the floor, and files of a few records are what  *)
(* can be enumerated.  The floor is a parameter of positions_per_chunk and *)
(* of nothing else.                                                        *)
(***************************************************************************)
EXTENDS Integers, Sequences, FiniteSets, TLC

\* ------------------------------------------------------------ constants
\* WINDOW_SIZE = 73 (line 39)
WINDOW_SIZE == 73

\* the floor of max(1000, n_positions // n_cores) (line 47)
MIN_CHUNK == 1000

\* 2^24: the integers up to it are the ones array('f') holds exactly (line 88)
F32_EXACT == 16777216

\* ------------------------------------------------------------ bounds
\* most records an input file holds
MaxN == 4
\* most cores mp.cpu_count() reports in a run of Spec
MaxCores == 2
\* the floor of the chunk size in a run of Spec (the program's is MIN_CHUNK)
MinChunk == 1
\* most targets and most cores SpecPart partitions
MaxTargets == 3100
MaxWorkers == 3
\* SpecKernel: the largest distance of the two targets from the event
MaxDist == 74
\* SpecNorm: the most events of the series whose engine output is normalised
MaxRecords == 3

\* positions an input record may carry: 173 - 100 = WINDOW_SIZE,
\* 174 - 100 = WINDOW_SIZE + 1, 174 - 173 = 1
PosSet == {100, 173, 174}
\* weights an input record may carry
WeightSet == {1, 2}
\* chromosome labels an input record may carry
LabelSet == {"chr1"}

\* what a record may carry in SpecLoad: two labels, and a weight that single
\* precision does not hold (2^24 + 1)
WideLabelSet == {"chr1", "chr2"}
WidePosSet == {100, 173}
WideWeightSet == {1, 2, 16777217}

\* SpecNorm: positions and weights of the events whose engine output is
\* normalised; the weight 0 gives scores 0
NormPosSet == {100, 174}
NormWeightSet == {0, 1, 2}
\* the two normalisers
NormTools == {"calculate_occupancy_avg_and_normalize", "normalize_bedgraph"}

VARIABLES
    pc,            \* where main is: "start", "usage", "read", "pool", "done",
                   \* "exit" (returned without a call), "error" (uncaught exception)
    lines,         \* the well-formed records read so far, as <<label, dyad, score>>
    pos_lst,       \* array('i') of main, then positions of calculate_nsm_occupancy
    val_lst,       \* array('f') of main, then values
    chr_name,      \* label of the last record read ("" for None)
    n_cores,       \* mp.cpu_count() as read by the run (0 before the call)
    chunks,        \* the list chunks of calculate_nsm_occupancy
    pool_size,     \* processes of mp.Pool
    pending,       \* chunk indices not yet taken by a worker, in dispatch order
    running,       \* chunk indices a worker is evaluating
    collected,     \* chunk indices in the order their results were yielded
    failed,        \* chunk indices whose evaluation raised
    chunk_results, \* the loop variable of line 68: the list yielded last
    all_results,   \* the list all_results
    out_exists,    \* whether the output file exists
    out_lines,     \* the lines of the output file
    error,         \* <<>> or <<exception, where>> of the uncaught exception:
                   \* where is the line number or the chunk index
    log,           \* what the run printed
    p_pc,          \* SpecPart: "start" or "done"
    p_n,           \* SpecPart: n_positions
    p_cores,       \* SpecPart: n_cores
    p_ranges,      \* SpecPart: the slices [i, i + positions_per_chunk) taken
    n_pc,          \* SpecNorm: "start", "write", "done" or "error"
    n_tool,        \* SpecNorm: which normaliser runs
    n_in,          \* SpecNorm: the lines of the input file
    n_avg,         \* SpecNorm: avg, as <<sum, count>>
    n_i,           \* SpecNorm: the line the writing loop is at
    n_out,         \* SpecNorm: the lines of the output file
    n_err          \* SpecNorm: <<>> or the exception that ended the run

loadVars == <<lines, pos_lst, val_lst, chr_name>>
poolVars == <<n_cores, chunks, pool_size, pending, running, collected, failed,
              chunk_results, all_results>>
outVars == <<out_exists, out_lines>>
runVars == <<pc, loadVars, poolVars, outVars, error, log>>
partVars == <<p_pc, p_n, p_cores, p_ranges>>
normVars == <<n_pc, n_tool, n_in, n_avg, n_i, n_out, n_err>>
vars == <<runVars, partVars, normVars>>

\* ------------------------------------------------------------ helpers
Max(a, b) == IF a >= b THEN a ELSE b
Min(a, b) == IF a <= b THEN a ELSE b
Abs(x) == IF x >= 0 THEN x ELSE -x

CeilDiv(a, b) == (a + b - 1) \div b

\* seq[lo:hi] of Python for 0 <= lo, clipped at the end of seq
Slice(seq, lo, hi) == SubSeq(seq, lo + 1, Min(hi, Len(seq)))

\* arr[mask]: the elements of arr at the indices idx, in order
Take(arr, idx) == [j \in 1..Len(idx) |-> arr[idx[j]]]

\* the power of two that is the spacing of single precision at w >= 0
RECURSIVE F32Step(_, _)
F32Step(w, step) == IF w \div step < F32_EXACT THEN step ELSE F32Step(w, 2 * step)

\* val_lst.append(float(score)) on array('f'): the integer weight w >= 0
\* rounded to single precision, ties to even
Float32(w) ==
    LET step == F32Step(w, 1)
        q == w \div step
        r == w % step
    IN  IF r = 0 THEN w
        ELSE IF 2 * r < step \/ (2 * r = step /\ q % 2 = 0) THEN q * step
        ELSE (q + 1) * step

\* ------------------------------------------------------------ kernel
\* 10^6 * exp(-q/800) rounded, for q = d*d and d = 0..74
ExpTable ==
    << 1000000, 998751, 995012, 988813, 980199, 969233, 955997, 940588,
       923116, 903707, 882497, 859633, 835270, 809572, 782705, 754840,
       726149, 696805, 666977, 636832, 606531, 576229, 546074, 516206,
       486752, 457833, 429557, 402021, 375311, 349501, 324652, 300818,
       278037, 256340, 235746, 216265, 197899, 180640, 164474, 149382,
       135335, 122303, 110251, 99137, 88922, 79560, 71005, 63213, 56135,
       49725, 43937, 38726, 34047, 29860, 26121, 22794, 19841, 17227,
       14921, 12891, 11109, 9550, 8189, 7004, 5976, 5086, 4318, 3656,
       3089, 2603, 2187, 1834, 1534, 1280, 1065 >>

\* np.power(diffs/20, 2): the square, as the index of its root in ExpTable
Power2Root(diff) == CHOOSE r \in 0..(Len(ExpTable) - 1) : r * r = diff * diff

\* ExpTerm with the kernel centred one position off
ExpTermShifted(diff) == ExpTable[Power2Root(diff - 1) + 1]

\* np.exp(-np.power(diffs/20, 2)/2) for one diff
ExpTerm(diff) == ExpTable[Power2Root(diff) + 1]

\* np.sum over a one-dimensional array
RECURSIVE NpSum(_)
NpSum(arr) == IF arr = <<>> THEN 0 ELSE NpSum(SubSeq(arr, 1, Len(arr) - 1)) + arr[Len(arr)]

\* ------------------------------------------------------------ process_chunk
\* Mask with the upper bound exclusive
MaskStrict(pos_array, pos, window_size) ==
    SelectSeq([i \in 1..Len(pos_array) |-> i],
              LAMBDA i : pos_array[i] >= pos - window_size
                         /\ pos_array[i] < pos + window_size)

\* Mask without the events at the target itself
MaskOthers(pos_array, pos, window_size) ==
    SelectSeq([i \in 1..Len(pos_array) |-> i],
              LAMBDA i : pos_array[i] >= pos - window_size
                         /\ pos_array[i] <= pos + window_size
                         /\ pos_array[i] # pos)

\* the indices where (pos_array >= pos - window_size) & (pos_array <= pos + window_size)
Mask(pos_array, pos, window_size) ==
    SelectSeq([i \in 1..Len(pos_array) |-> i],
              LAMBDA i : pos_array[i] >= pos - window_size
                         /\ pos_array[i] <= pos + window_size)

\* Score as the mean of the terms
ScoreMean(relevant_pos, relevant_val, pos) ==
    NpSum([j \in 1..Len(relevant_pos) |->
              relevant_val[j] * ExpTerm(relevant_pos[j] - pos)]) \div Len(relevant_pos)

\* np.sum(relevant_val * exp_terms) for the target pos
Score(relevant_pos, relevant_val, pos) ==
    NpSum([j \in 1..Len(relevant_pos) |->
              relevant_val[j] * ExpTerm(relevant_pos[j] - pos)])

\* the body of the loop of process_chunk for one target: what it appends
ScoreTarget(pos_array, val_array, pos, window_size) ==
    LET mask == Mask(pos_array, pos, window_size)
        relevant_pos == Take(pos_array, mask)
        relevant_val == Take(val_array, mask)
    IN  IF Len(relevant_pos) > 0
        THEN << <<pos, Score(relevant_pos, relevant_val, pos)>> >>
        ELSE <<>>

RECURSIVE ScoreTargets(_, _, _, _)
ScoreTargets(pos_array, val_array, targets, window_size) ==
    IF targets = <<>> THEN <<>>
    ELSE ScoreTarget(pos_array, val_array, Head(targets), window_size)
         \o ScoreTargets(pos_array, val_array, Tail(targets), window_size)

\* process_chunk(chunk_data): the list of (pos, score) it returns
process_chunk(chunk_data) ==
    ScoreTargets(chunk_data.positions, chunk_data.values,
                 chunk_data.chunk_positions, chunk_data.window_size)

\* ------------------------------------------------------------ partitioner
\* positions_per_chunk with the quotient rounded up
PositionsPerChunkCeil(n_positions, cores, floor) == Max(floor, CeilDiv(n_positions, cores))

\* positions_per_chunk without the floor
PositionsPerChunkNoFloor(n_positions, cores, floor) == Max(1, n_positions \div cores)

\* positions_per_chunk = max(floor, n_positions // n_cores)
positions_per_chunk(n_positions, cores, floor) == Max(floor, n_positions \div cores)

\* range(i, n, step) as the sequence of its values
RECURSIVE Range(_, _, _)
Range(i, n, step) == IF i >= n THEN <<>> ELSE <<i>> \o Range(i + step, n, step)

\* ChunkRanges with the end of a slice inclusive
ChunkRangesInclusive(n, step) ==
    LET starts == Range(0, n, step)
    IN  [k \in 1..Len(starts) |-> <<starts[k], Min(starts[k] + step + 1, n)>>]

\* the slices positions[i:i + step] for i in range(0, n, step), as <<i, end>>
\* with end exclusive and clipped at n
ChunkRanges(n, step) ==
    LET starts == Range(0, n, step)
    IN  [k \in 1..Len(starts) |-> <<starts[k], Min(starts[k] + step, n)>>]

\* one element of chunks: the tuple appended at lines 58-63
MakeChunk(positions, values, chunk_positions) ==
    LET min_pos == chunk_positions[1]
        max_pos == chunk_positions[Len(chunk_positions)]
        overlap_mask ==
            SelectSeq([i \in 1..Len(positions) |-> i],
                      LAMBDA i : positions[i] >= min_pos - WINDOW_SIZE
                                 /\ positions[i] <= max_pos + WINDOW_SIZE)
    IN  [positions |-> Take(positions, overlap_mask),
         values |-> Take(values, overlap_mask),
         chunk_positions |-> chunk_positions,
         window_size |-> WINDOW_SIZE]

\* the list chunks after the loop of lines 51-63
BuildChunks(positions, values, cores, floor) ==
    LET rs == ChunkRanges(Len(positions),
                          positions_per_chunk(Len(positions), cores, floor))
    IN  [k \in 1..Len(rs) |->
            MakeChunk(positions, values, Slice(positions, rs[k][1], rs[k][2]))]

\* ------------------------------------------------------------ aggregator
\* list.sort(key=lambda x: x[0]): stable, ascending in the position
RECURSIVE InsertByPos(_, _)
InsertByPos(sorted, rec) ==
    IF sorted = <<>> THEN <<rec>>
    ELSE IF sorted[Len(sorted)][1] <= rec[1] THEN Append(sorted, rec)
    ELSE Append(InsertByPos(SubSeq(sorted, 1, Len(sorted) - 1), rec),
                sorted[Len(sorted)])

\* the results left in the order they were collected
SortNone(results) == results

RECURSIVE SortByPos(_)
SortByPos(results) ==
    IF results = <<>> THEN <<>>
    ELSE InsertByPos(SortByPos(SubSeq(results, 1, Len(results) - 1)),
                     results[Len(results)])

\* the line f"{chr_name}\t{pos-1}\t{pos}\t\t{score}\n" as its five fields
OutLine(chr, rec) == <<chr, rec[1] - 1, rec[1], "", rec[2]>>

\* ------------------------------------------------------------ text of a line
\* a line of text as the sequence of its tokens: a tab, a newline, a word
\* (a label) or the decimal text of a number, held as num / den
TAB == [kind |-> "tab", num |-> 0, den |-> 1, str |-> ""]
NL == [kind |-> "nl", num |-> 0, den |-> 1, str |-> ""]
Word(s) == [kind |-> "word", num |-> 0, den |-> 1, str |-> s]
Number(n) == [kind |-> "number", num |-> n, den |-> 1, str |-> ""]
\* the decimal text of the quotient n / d
Quotient(n, d) == [kind |-> "number", num |-> n, den |-> d, str |-> ""]

\* what an f-string puts for a string and for a number
StrText(s) == IF s = "" THEN <<>> ELSE <<Word(s)>>
NumText(n) == <<Number(n)>>

\* FormatLine with one tab before the score
FormatLineOneTab(f) ==
    StrText(f[1]) \o <<TAB>> \o NumText(f[2]) \o <<TAB>> \o NumText(f[3])
    \o <<TAB>> \o StrText(f[4]) \o NumText(f[5]) \o <<NL>>

\* f"{chr_name}\t{pos-1}\t{pos}\t\t{score}\n" (line 75) for the values f of OutLine
FormatLine(f) ==
    StrText(f[1]) \o <<TAB>> \o NumText(f[2]) \o <<TAB>> \o NumText(f[3])
    \o <<TAB>> \o StrText(f[4]) \o <<TAB>> \o NumText(f[5]) \o <<NL>>

\* text.split(sep): the pieces between the separators, empty pieces kept
RECURSIVE SplitAt(_, _)
SplitAt(text, sep) ==
    IF text = <<>> THEN << <<>> >>
    ELSE LET rest == SplitAt(Tail(text), sep)
         IN  IF Head(text) = sep THEN << <<>> >> \o rest
             ELSE << <<Head(text)>> \o rest[1] >> \o Tail(rest)

\* the text without its line end
Chomp(text) ==
    IF text # <<>> /\ text[Len(text)] = NL THEN SubSeq(text, 1, Len(text) - 1) ELSE text

IsSpace(tok) == tok \in {TAB, NL}

\* SplitSpace splitting at every tab
SplitTabs(text) == SplitAt(Chomp(text), TAB)

\* text.strip().split(): the pieces between runs of whitespace, none empty
RECURSIVE SplitSpace(_)
SplitSpace(text) ==
    IF text = <<>> THEN <<>>
    ELSE LET rest == SplitSpace(Tail(text))
         IN  IF IsSpace(Head(text)) THEN rest
             ELSE IF Len(text) > 1 /\ ~IsSpace(text[2])
                  THEN << <<Head(text)>> \o rest[1] >> \o Tail(rest)
                  ELSE << <<Head(text)>> >> \o rest

\* ------------------------------------------------------------ Spec: main
\* no normaliser runs
NormIdle ==
    /\ n_pc = "off"
    /\ n_tool = ""
    /\ n_in = <<>>
    /\ n_avg = <<0, 0>>
    /\ n_i = 0
    /\ n_out = <<>>
    /\ n_err = <<>>

Init ==
    /\ pc = "start"
    /\ lines = <<>>
    /\ pos_lst = <<>>
    /\ val_lst = <<>>
    /\ chr_name = ""
    /\ n_cores = 0
    /\ chunks = <<>>
    /\ pool_size = 0
    /\ pending = <<>>
    /\ running = {}
    /\ collected = <<>>
    /\ failed = {}
    /\ chunk_results = <<>>
    /\ all_results = <<>>
    /\ out_exists = FALSE
    /\ out_lines = <<>>
    /\ error = <<>>
    /\ log = <<>>
    /\ p_pc = "off"
    /\ p_n = 0
    /\ p_cores = 0
    /\ p_ranges = <<>>
    /\ NormIdle

\* lines 78-80: the script was not called with exactly one argument
Usage ==
    /\ pc = "start"
    /\ pc' = "usage"
    /\ log' = Append(log, "Usage: script.py input_file")
    /\ UNCHANGED <<loadVars, poolVars, outVars, error, partVars, normVars>>

\* lines 82-91: the input file is opened, or open raises
OpenInput ==
    /\ pc = "start"
    /\ \E found \in BOOLEAN :
          IF found THEN pc' = "read" /\ error' = error
          ELSE pc' = "error" /\ error' = <<"FileNotFoundError", 0>>
    /\ UNCHANGED <<loadVars, poolVars, outVars, log, partVars, normVars>>

\* lines 92-95 for a well-formed line: the record is appended
ReadRecord(label, dyad, score) ==
    /\ pc = "read"
    /\ Len(lines) < MaxN
    /\ lines' = Append(lines, <<label, dyad, score>>)
    /\ chr_name' = label
    /\ pos_lst' = Append(pos_lst, dyad)
    /\ val_lst' = Append(val_lst, Float32(score))
    /\ UNCHANGED <<pc, poolVars, outVars, error, log, partVars, normVars>>

\* a line of an input file of Spec
ReadLine ==
    \E label \in LabelSet, dyad \in PosSet, score \in WeightSet :
       ReadRecord(label, dyad, score)

\* ReadBadLine with the exception reported and the loop going on
ReadBadLineContinue(kind) ==
    /\ pc = "read"
    /\ Len(lines) < MaxN
    /\ error' = <<"ValueError", Len(lines) + 1>>
    /\ \E label \in LabelSet :
          chr_name' = IF kind = "fields" THEN chr_name ELSE label
    /\ UNCHANGED <<pc, lines, pos_lst, val_lst, poolVars, outVars, log, partVars, normVars>>

\* lines 92-95 for a malformed line: "fields" is a line that does not split
\* into three fields (line 93 raises), "dyad" one whose second field is no
\* integer (int raises at line 94), "score" one whose third field is no
\* number (float raises at line 95, after the position was appended)
ReadBadLine(kind) ==
    /\ pc = "read"
    /\ Len(lines) < MaxN
    /\ pc' = "error"
    /\ error' = <<"ValueError", Len(lines) + 1>>
    /\ \E label \in LabelSet, dyad \in PosSet :
          /\ chr_name' = IF kind = "fields" THEN chr_name ELSE label
          /\ pos_lst' = IF kind = "score" THEN Append(pos_lst, dyad) ELSE pos_lst
    /\ UNCHANGED <<lines, val_lst, poolVars, outVars, log, partVars, normVars>>

\* if pos_lst and val_lst (line 97)
HasEventsAlways(positions, values) == TRUE

HasEvents(positions, values) == Len(positions) > 0 /\ Len(values) > 0

\* processes=min(n_cores, len(chunks)) (line 66)
PoolProcessesCores(cores, n_chunks) == cores

PoolProcesses(cores, n_chunks) == Min(cores, n_chunks)

\* lines 97-98 and 39-66: the file is at its end; with events loaded the
\* chunks are built and the pool is created, without events main returns
EndOfFile ==
    /\ pc = "read"
    /\ IF HasEvents(pos_lst, val_lst)
       THEN \E cores \in 1..MaxCores :
               LET built == BuildChunks(pos_lst, val_lst, cores, MinChunk)
               IN  /\ n_cores' = cores
                   /\ chunks' = built
                   /\ pool_size' = PoolProcesses(cores, Len(built))
                   /\ pending' = [k \in 1..Len(built) |-> k]
                   /\ pc' = "pool"
       ELSE /\ pc' = "exit"
            /\ UNCHANGED <<n_cores, chunks, pool_size, pending>>
    /\ UNCHANGED <<loadVars, running, collected, failed, chunk_results,
                   all_results, outVars, error, log, partVars, normVars>>

\* CanTake with chunks handed out only before the first result is collected
CanTakeOnce ==
    pending # <<>> /\ collected = <<>> /\ Cardinality(running) < pool_size

\* a chunk waits and a process of the pool is free
CanTake == pending # <<>> /\ Cardinality(running) < pool_size

\* a free worker of the pool takes the next chunk
WorkerTake ==
    /\ pc = "pool"
    /\ CanTake
    /\ running' = running \cup {Head(pending)}
    /\ pending' = Tail(pending)
    /\ UNCHANGED <<pc, loadVars, n_cores, chunks, pool_size, collected, failed,
                   chunk_results, all_results, outVars, error, log, partVars, normVars>>

\* WorkerFinish with the workers sharing one event list that an evaluation
\* consumes: the contexts of the other chunks lose their events
WorkerFinishShared(k) ==
    /\ pc = "pool"
    /\ k \in running
    /\ running' = running \ {k}
    /\ chunk_results' = process_chunk(chunks[k])
    /\ all_results' = all_results \o process_chunk(chunks[k])
    /\ collected' = Append(collected, k)
    /\ chunks' = [j \in 1..Len(chunks) |->
                     IF j = k THEN chunks[j]
                     ELSE [chunks[j] EXCEPT !.positions = <<>>, !.values = <<>>]]
    /\ UNCHANGED <<pc, loadVars, n_cores, pool_size, pending, failed,
                   outVars, error, log, partVars, normVars>>

\* WorkerFinish with all_results assigned instead of extended
WorkerFinishOverwrite(k) ==
    /\ pc = "pool"
    /\ k \in running
    /\ running' = running \ {k}
    /\ chunk_results' = process_chunk(chunks[k])
    /\ all_results' = process_chunk(chunks[k])
    /\ collected' = Append(collected, k)
    /\ UNCHANGED <<pc, loadVars, n_cores, chunks, pool_size, pending, failed,
                   outVars, error, log, partVars, normVars>>

\* lines 68-69: a worker returns process_chunk of its chunk, imap_unordered
\* yields it and the loop extends all_results
WorkerFinish(k) ==
    /\ pc = "pool"
    /\ k \in running
    /\ running' = running \ {k}
    /\ chunk_results' = process_chunk(chunks[k])
    /\ all_results' = all_results \o process_chunk(chunks[k])
    /\ collected' = Append(collected, k)
    /\ UNCHANGED <<pc, loadVars, n_cores, chunks, pool_size, pending, failed,
                   outVars, error, log, partVars, normVars>>

\* WorkerFail with the exception caught and the loop going on
WorkerFailSwallowed(k) ==
    /\ pc = "pool"
    /\ k \in running
    /\ failed' = failed \cup {k}
    /\ running' = running \ {k}
    /\ UNCHANGED <<pc, loadVars, n_cores, chunks, pool_size, pending, collected,
                   chunk_results, all_results, outVars, error, log, partVars, normVars>>

\* line 68: process_chunk raises in a worker; imap_unordered raises it in the
\* loop, the with block terminates the pool and the exception leaves
\* calculate_nsm_occupancy and main with their local lists
WorkerFail(k) ==
    /\ pc = "pool"
    /\ k \in running
    /\ failed' = failed \cup {k}
    /\ running' = {}
    /\ chunk_results' = <<>>
    /\ all_results' = <<>>
    /\ pc' = "error"
    /\ error' = <<"WorkerError", k>>
    /\ UNCHANGED <<loadVars, n_cores, chunks, pool_size, pending, collected,
                   outVars, log, partVars, normVars>>

\* Aggregate not waiting for the chunks still in workers
AggregateEarly ==
    /\ pc = "pool"
    /\ pending = <<>>
    /\ LET sorted == SortByPos(all_results)
       IN  /\ all_results' = sorted
           /\ out_lines' = [i \in 1..Len(sorted) |-> OutLine(chr_name, sorted[i])]
    /\ out_exists' = TRUE
    /\ pc' = "done"
    /\ UNCHANGED <<loadVars, n_cores, chunks, pool_size, pending, running,
                   collected, failed, chunk_results, error, log, partVars, normVars>>

\* lines 72-75: every chunk was yielded; the results are sorted and written
Aggregate ==
    /\ pc = "pool"
    /\ pending = <<>>
    /\ running = {}
    /\ LET sorted == SortByPos(all_results)
       IN  /\ all_results' = sorted
           /\ out_lines' = [i \in 1..Len(sorted) |-> OutLine(chr_name, sorted[i])]
    /\ out_exists' = TRUE
    /\ pc' = "done"
    /\ UNCHANGED <<loadVars, n_cores, chunks, pool_size, pending, running,
                   collected, failed, chunk_results, error, log, partVars, normVars>>

Next ==
    \/ Usage
    \/ OpenInput
    \/ ReadLine
    \/ \E kind \in {"fields", "dyad", "score"} : ReadBadLine(kind)
    \/ EndOfFile
    \/ WorkerTake
    \/ \E k \in 1..Len(chunks) : WorkerFinish(k)
    \/ \E k \in 1..Len(chunks) : WorkerFail(k)
    \/ Aggregate

Spec == Init /\ [][Next]_vars

\* the part of the state that says how far the pool and the loop are
ctlVars == <<pc, pending, running, collected>>

\* a step of WorkerTake, WorkerFinish or Aggregate, by what it does to ctlVars
PoolStep ==
    /\ pc = "pool"
    /\ \/ /\ CanTake
          /\ running' = running \cup {Head(pending)}
          /\ pending' = Tail(pending)
          /\ UNCHANGED <<pc, collected>>
       \/ \E k \in running :
             /\ running' = running \ {k}
             /\ collected' = Append(collected, k)
             /\ UNCHANGED <<pc, pending>>
       \/ /\ pending = <<>>
          /\ running = {}
          /\ pc' = "done"
          /\ UNCHANGED <<pending, running, collected>>

\* the workers run and the loop of line 68 goes on: while a chunk can be
\* taken, returned or the results written, one of these happens
Fairness == WF_ctlVars(PoolStep)

FairSpec == Init /\ [][Next]_vars /\ Fairness

\* ------------------------------------------------------------ SpecLoad
\* a line of an input file of SpecLoad
ReadLineWide ==
    \E label \in WideLabelSet, dyad \in WidePosSet, score \in WideWeightSet :
       ReadRecord(label, dyad, score)

LoadNext ==
    \/ OpenInput
    \/ ReadLineWide
    \/ \E kind \in {"fields", "dyad", "score"} : ReadBadLine(kind)

\* the loader of main on files of more kinds of records
SpecLoad == Init /\ [][LoadNext]_vars

\* ------------------------------------------------------------ SpecPart
PartInit ==
    /\ pc = "off"
    /\ lines = <<>>
    /\ pos_lst = <<>>
    /\ val_lst = <<>>
    /\ chr_name = ""
    /\ n_cores = 0
    /\ chunks = <<>>
    /\ pool_size = 0
    /\ pending = <<>>
    /\ running = {}
    /\ collected = <<>>
    /\ failed = {}
    /\ chunk_results = <<>>
    /\ all_results = <<>>
    /\ out_exists = FALSE
    /\ out_lines = <<>>
    /\ error = <<>>
    /\ log = <<>>
    /\ p_pc = "start"
    /\ p_n \in 1..MaxTargets
    /\ p_cores \in 1..MaxWorkers
    /\ p_ranges = <<>>
    /\ NormIdle

\* lines 45-52: the chunk size and the slices of the loop, for the real floor
Partition ==
    /\ p_pc = "start"
    /\ p_ranges' = ChunkRanges(p_n, positions_per_chunk(p_n, p_cores, MIN_CHUNK))
    /\ p_pc' = "done"
    /\ UNCHANGED <<p_n, p_cores, runVars, normVars>>

PartNext == Partition

SpecPart == PartInit /\ [][PartNext]_vars

\* ------------------------------------------------------------ SpecKernel
\* a chunk whose context is one event at x with weight w and whose targets
\* are x - d and x + d
SingleEventChunk(x, w, d) ==
    [positions |-> <<x>>, values |-> <<w>>,
     chunk_positions |-> <<x - d, x + d>>, window_size |-> WINDOW_SIZE]

KernelInit ==
    /\ pc = "kernel"
    /\ \E x \in PosSet, w \in WeightSet, d \in 0..MaxDist :
          chunks = <<SingleEventChunk(x, w, d)>>
    /\ lines = <<>>
    /\ pos_lst = <<>>
    /\ val_lst = <<>>
    /\ chr_name = ""
    /\ n_cores = 0
    /\ pool_size = 0
    /\ pending = <<>>
    /\ running = {}
    /\ collected = <<>>
    /\ failed = {}
    /\ chunk_results = <<>>
    /\ all_results = <<>>
    /\ out_exists = FALSE
    /\ out_lines = <<>>
    /\ error = <<>>
    /\ log = <<>>
    /\ p_pc = "off"
    /\ p_n = 0
    /\ p_cores = 0
    /\ p_ranges = <<>>
    /\ NormIdle

\* lines 12-35: process_chunk is called on the chunk
KernelEval ==
    /\ pc = "kernel"
    /\ chunk_results' = process_chunk(chunks[1])
    /\ pc' = "kernel_done"
    /\ UNCHANGED <<loadVars, n_cores, chunks, pool_size, pending, running,
                   collected, failed, all_results, outVars, error, log, partVars, normVars>>

KernelNext == KernelEval

\* process_chunk on the chunks of a single event
SpecKernel == KernelInit /\ [][KernelNext]_vars

\* ------------------------------------------------------------ SpecNorm
\* everything of the engine is idle
RunIdle ==
    /\ pc = "off"
    /\ lines = <<>>
    /\ pos_lst = <<>>
    /\ val_lst = <<>>
    /\ chr_name = ""
    /\ n_cores = 0
    /\ chunks = <<>>
    /\ pool_size = 0
    /\ pending = <<>>
    /\ running = {}
    /\ collected = <<>>
    /\ failed = {}
    /\ chunk_results = <<>>
    /\ all_results = <<>>
    /\ out_exists = FALSE
    /\ out_lines = <<>>
    /\ error = <<>>
    /\ log = <<>>
    /\ p_pc = "off"
    /\ p_n = 0
    /\ p_cores = 0
    /\ p_ranges = <<>>

\* the file the engine writes for the series (ps, vs) of at most 1000
\* events, which is one chunk (lines 45-75)
EngineOutput(chr, ps, vs) ==
    LET built == BuildChunks(ps, vs, 1, MIN_CHUNK)
        sorted == SortByPos(process_chunk(built[1]))
    IN  [i \in 1..Len(sorted) |-> FormatLine(OutLine(chr, sorted[i]))]

\* float(x) returns: the piece is the text of one number
ParseOk(piece) == Len(piece) = 1 /\ piece[1].kind = "number"

\* float(x) of the text of a number written by the engine
FloatOf(piece) == piece[1].num

\* the exception of float(lst[3]) for the pieces lst of a line, "" for none
FieldError(lst) ==
    IF Len(lst) < 4 THEN "IndexError"
    ELSE IF ~ParseOk(lst[4]) THEN "ValueError"
    ELSE ""

\* sum of float(lst[3]) over the file ls
RECURSIVE SumScores(_)
SumScores(ls) ==
    IF ls = <<>> THEN 0
    ELSE SumScores(SubSeq(ls, 1, Len(ls) - 1)) + FloatOf(SplitSpace(ls[Len(ls)])[4])

\* calculate_average of calculate_occupancy_avg_and_normalize.py (lines 9-16)
AverageOcc(ls) ==
    IF \E i \in 1..Len(ls) : FieldError(SplitSpace(ls[i])) # ""
    THEN LET i == CHOOSE j \in 1..Len(ls) :
                     /\ FieldError(SplitSpace(ls[j])) # ""
                     /\ \A h \in 1..(j - 1) : FieldError(SplitSpace(ls[h])) = ""
         IN  [err |-> FieldError(SplitSpace(ls[i])), avg |-> <<0, 0>>]
    ELSE IF ls = <<>> THEN [err |-> "ZeroDivisionError", avg |-> <<0, 0>>]
    ELSE [err |-> "", avg |-> <<SumScores(ls), Len(ls)>>]

\* calculate_average of normalize_bedgraph.py (lines 9-24)
AverageBedgraph(ls) ==
    LET values == SelectSeq(ls, LAMBDA l : FieldError(SplitSpace(l)) = "")
    IN  IF values = <<>> THEN [err |-> "ValueError", avg |-> <<0, 0>>]
        ELSE [err |-> "", avg |-> <<SumScores(values), Len(values)>>]

\* '\t'.join(lst)
RECURSIVE JoinTab(_)
JoinTab(lst) ==
    IF lst = <<>> THEN <<>>
    ELSE IF Len(lst) = 1 THEN lst[1]
    ELSE lst[1] \o <<TAB>> \o JoinTab(Tail(lst))

\* the line written for the pieces lst: lst[3] = str(float(lst[3])/avg),
\* then '\t'.join(lst) and '\n'
NormLine(lst, avg) ==
    JoinTab([lst EXCEPT ![4] = <<Quotient(FloatOf(lst[4]) * avg[2], avg[1])>>]) \o <<NL>>

NormInit ==
    /\ RunIdle
    /\ n_pc = "start"
    /\ n_tool \in NormTools
    /\ \E n \in 1..MaxRecords :
          \E ps \in [1..n -> NormPosSet], vs \in [1..n -> NormWeightSet], chr \in LabelSet :
             n_in = EngineOutput(chr, ps, vs)
    /\ n_avg = <<0, 0>>
    /\ n_i = 0
    /\ n_out = <<>>
    /\ n_err = <<>>

\* avg = calculate_average(input_file) of either normaliser
NormAverage ==
    /\ n_pc = "start"
    /\ LET r == IF n_tool = "normalize_bedgraph"
                THEN AverageBedgraph(n_in) ELSE AverageOcc(n_in)
       IN  IF r.err # ""
           THEN /\ n_pc' = "error"
                /\ n_err' = <<r.err>>
                /\ UNCHANGED <<n_avg, n_i>>
           ELSE /\ n_pc' = "write"
                /\ n_avg' = r.avg
                /\ n_i' = 1
                /\ n_err' = n_err
    /\ UNCHANGED <<n_tool, n_in, n_out, runVars, partVars>>

\* one pass of the loop of process_file (lines 21-25) or of
\* normalize_bedgraph (lines 29-39): normalize_bedgraph skips a line float
\* fails on, process_file ends with the exception; a mean of 0 ends both
NormWriteLine ==
    /\ n_pc = "write"
    /\ n_i <= Len(n_in)
    /\ LET lst == SplitSpace(n_in[n_i])
       IN  IF FieldError(lst) # ""
           THEN IF n_tool = "normalize_bedgraph"
                THEN /\ n_i' = n_i + 1
                     /\ UNCHANGED <<n_pc, n_out, n_err>>
                ELSE /\ n_pc' = "error"
                     /\ n_err' = <<FieldError(lst)>>
                     /\ UNCHANGED <<n_i, n_out>>
           ELSE IF n_avg[1] = 0
           THEN /\ n_pc' = "error"
                /\ n_err' = <<"ZeroDivisionError">>
                /\ UNCHANGED <<n_i, n_out>>
           ELSE /\ n_out' = Append(n_out, NormLine(lst, n_avg))
                /\ n_i' = n_i + 1
                /\ UNCHANGED <<n_pc, n_err>>
    /\ UNCHANGED <<n_tool, n_in, n_avg, runVars, partVars>>

\* the loop is through the file: the files are closed
NormClose ==
    /\ n_pc = "write"
    /\ n_i > Len(n_in)
    /\ n_pc' = "done"
    /\ UNCHANGED <<n_tool, n_in, n_avg, n_i, n_out, n_err, runVars, partVars>>

NormNext == NormAverage \/ NormWriteLine \/ NormClose

\* a normaliser run on a file the engine wrote
SpecNorm == NormInit /\ [][NormNext]_vars

\* ------------------------------------------------------------ reference
IsSorted(seq) == \A i \in 1..(Len(seq) - 1) : seq[i] <= seq[i + 1]

\* the loaded series is in ascending position order
SeriesSorted == IsSorted(pos_lst)

\* the chunks exist: the run is past the partitioner
Partitioned == pc \in {"pool", "done"}

\* the events of the series (ps, vs) within WINDOW_SIZE of p, as indices
InWindow(ps, p) == {i \in 1..Len(ps) : Abs(ps[i] - p) <= WINDOW_SIZE}

\* the sum of a function f over a finite set of indices
RECURSIVE SumOver(_, _)
SumOver(S, f) ==
    IF S = {} THEN 0
    ELSE LET i == CHOOSE x \in S : TRUE IN f[i] + SumOver(S \ {i}, f)

\* weight times kernel term, the kernel term looked up by distance
TermAt(ps, vs, p) == [i \in 1..Len(ps) |-> vs[i] * ExpTable[Abs(ps[i] - p) + 1]]

\* the occupancy of p over the series (ps, vs): the sum of the in-window terms
Occupancy(ps, vs, p) == SumOver(InWindow(ps, p), TermAt(ps, vs, p))

\* how many events of the series (ps, vs) are the pair <<p, v>>
CountEvent(ps, vs, p, v) == Cardinality({i \in 1..Len(ps) : ps[i] = p /\ vs[i] = v})

\* one pass over the whole series as a single chunk whose context is the series
WholeSeries ==
    [positions |-> pos_lst, values |-> val_lst,
     chunk_positions |-> pos_lst, window_size |-> WINDOW_SIZE]
Reference == SortByPos(process_chunk(WholeSeries))

\* the events the mask of process_chunk selects for p from the context (ps, vs)
Contributing(ps, vs, p) ==
    LET m == Mask(ps, p, WINDOW_SIZE) IN <<Take(ps, m), Take(vs, m)>>

\* ------------------------------------------------------------ claims
\* C1: the sorted output of a run equals, record for record, the sorted
\* output of one pass over the whole series, and in every chunk every target
\* has the contributing events it has in the whole series.
ChunkInvarianceBody ==
    /\ Partitioned =>
          \A k \in 1..Len(chunks) :
             \A j \in 1..Len(chunks[k].chunk_positions) :
                Contributing(chunks[k].positions, chunks[k].values,
                             chunks[k].chunk_positions[j])
                = Contributing(pos_lst, val_lst, chunks[k].chunk_positions[j])
    /\ pc = "done" => all_results = Reference
ChunkInvariance == ChunkInvarianceBody

\* the same on a series in ascending position order
ChunkInvarianceSorted == SeriesSorted => ChunkInvarianceBody

\* C2: every event of the series within 73 of a target of a chunk is in
\* that chunk's context, with its weight and as often as in the series.
NoDroppedEventBody ==
    Partitioned =>
       \A k \in 1..Len(chunks) :
          \A j \in 1..Len(chunks[k].chunk_positions) :
             \A i \in InWindow(pos_lst, chunks[k].chunk_positions[j]) :
                CountEvent(chunks[k].positions, chunks[k].values, pos_lst[i], val_lst[i])
                = CountEvent(pos_lst, val_lst, pos_lst[i], val_lst[i])
NoDroppedEvent == NoDroppedEventBody

\* the same on a series in ascending position order
NoDroppedEventSorted == SeriesSorted => NoDroppedEventBody

\* the chunk whose results were yielded last
LastChunk == chunks[collected[Len(collected)]]

\* the events of the context ps at distance at most d from p, as indices
Within(ps, p, d) == {i \in 1..Len(ps) : Abs(ps[i] - p) <= d}

\* C3: in the list a chunk returns, the score of a target p is the sum of
\* the terms of exactly the context events at distance at most 73 from p: an
\* event at distance 73 with a weight other than 0 adds a term other than 0
\* (without it the sum differs), and an event at distance 74 adds nothing
\* (with it the sum would differ).
WindowCutoff ==
    collected # <<>> =>
       \A j \in 1..Len(chunk_results) :
          LET p == chunk_results[j][1]
              ps == LastChunk.positions
              vs == LastChunk.values
              score == chunk_results[j][2]
          IN  /\ score = SumOver(Within(ps, p, WINDOW_SIZE), TermAt(ps, vs, p))
              /\ \A i \in 1..Len(ps) :
                    (Abs(ps[i] - p) = WINDOW_SIZE /\ vs[i] # 0)
                       => /\ TermAt(ps, vs, p)[i] # 0
                          /\ score # SumOver(Within(ps, p, WINDOW_SIZE) \ {i},
                                             TermAt(ps, vs, p))
              /\ \A i \in 1..Len(ps) :
                    (Abs(ps[i] - p) = WINDOW_SIZE + 1 /\ vs[i] # 0)
                       => score # SumOver(Within(ps, p, WINDOW_SIZE) \cup {i},
                                          TermAt(ps, vs, p))

\* a chunk was evaluated whose context holds, for a target it scored, an
\* event at distance 73 and an event at distance 74
WindowCutoffWitness ==
    /\ collected # <<>>
    /\ \E j \in 1..Len(chunk_results) :
          \E i1, i2 \in 1..Len(LastChunk.positions) :
             /\ Abs(LastChunk.positions[i1] - chunk_results[j][1]) = WINDOW_SIZE
             /\ Abs(LastChunk.positions[i2] - chunk_results[j][1]) = WINDOW_SIZE + 1

\* C4: every written line carries the position and the score of the sorted
\* result at its place, and that score is the plain sum of weight times
\* kernel term over the in-window events of the context of a chunk that
\* holds the target: nothing divides it.
PlainSum ==
    pc = "done" =>
       /\ Len(out_lines) = Len(all_results)
       /\ \A i \in 1..Len(out_lines) :
             /\ out_lines[i][3] = all_results[i][1]
             /\ out_lines[i][5] = all_results[i][2]
             /\ \E k \in 1..Len(chunks) :
                   /\ \E j \in 1..Len(chunks[k].chunk_positions) :
                         chunks[k].chunk_positions[j] = out_lines[i][3]
                   /\ out_lines[i][5]
                      = Occupancy(chunks[k].positions, chunks[k].values, out_lines[i][3])

\* a line was written whose score sums the terms of several events
PlainSumWitness ==
    /\ pc = "done"
    /\ \E i \in 1..Len(out_lines) :
          /\ Cardinality(InWindow(pos_lst, out_lines[i][3])) >= 3
          /\ out_lines[i][5] = Occupancy(pos_lst, val_lst, out_lines[i][3])

\* C5: a target of a chunk with no context event within 73 gets a record
\* with score 0 in the list the chunk returns.
ZeroEventScoresZero ==
    collected # <<>> =>
       \A j \in 1..Len(LastChunk.chunk_positions) :
          InWindow(LastChunk.positions, LastChunk.chunk_positions[j]) = {}
             => \E r \in 1..Len(chunk_results) :
                   chunk_results[r] = <<LastChunk.chunk_positions[j], 0>>

\* C6: a finished run wrote one line per input event, and every position is
\* written as often as it was read.
OnePerTargetBody ==
    pc = "done" =>
       /\ Len(out_lines) = Len(pos_lst)
       /\ \A p \in PosSet :
             Cardinality({i \in 1..Len(out_lines) : out_lines[i][3] = p})
             = Cardinality({i \in 1..Len(pos_lst) : pos_lst[i] = p})
OnePerTarget == OnePerTargetBody

\* the same on a series in ascending position order
OnePerTargetSorted == SeriesSorted => OnePerTargetBody

\* C7: whatever the order in which the chunks were yielded, the written
\* lines are non-decreasing in position.
OutputOrdering ==
    pc = "done" =>
       \A i \in 1..(Len(out_lines) - 1) : out_lines[i][3] <= out_lines[i + 1][3]

\* a run ended whose second chunk was yielded before its first, the first
\* holding the smaller positions
OutputOrderingWitness ==
    /\ pc = "done"
    /\ Len(collected) >= 2
    /\ collected[1] > collected[2]
    /\ chunks[collected[2]].chunk_positions[1] < chunks[collected[1]].chunk_positions[1]
    /\ Len(out_lines) = Len(pos_lst)

\* the results of the chunks in dispatch order, as if each were yielded in turn
RECURSIVE InDispatchOrder(_)
InDispatchOrder(k) ==
    IF k = 0 THEN <<>> ELSE InDispatchOrder(k - 1) \o process_chunk(chunks[k])

\* C8: the written lines are those of the run that yields the chunks in
\* dispatch order, whatever the order in which this run yielded them.
OrderIndependenceBody ==
    pc = "done" =>
       LET sorted == SortByPos(InDispatchOrder(Len(chunks)))
       IN  out_lines = [i \in 1..Len(sorted) |-> OutLine(chr_name, sorted[i])]
OrderIndependenceSorted == SeriesSorted => OrderIndependenceBody

\* ------------------------------------------------------------ claims on SpecPart
\* the chunks whose slice holds the 0-based index idx
Holders(idx) == {k \in 1..Len(p_ranges) : p_ranges[k][1] <= idx /\ idx < p_ranges[k][2]}

\* C9: the slices are non-empty, each starts where the one before it ends,
\* the first at 0 and the last ending at N, and every index 0..N-1 lies in
\* exactly one of them.
TargetPartition ==
    p_pc = "done" =>
       /\ \A k \in 1..Len(p_ranges) : p_ranges[k][1] < p_ranges[k][2]
       /\ p_ranges[1][1] = 0
       /\ p_ranges[Len(p_ranges)][2] = p_n
       /\ \A k \in 1..(Len(p_ranges) - 1) : p_ranges[k][2] = p_ranges[k + 1][1]
       /\ \A idx \in 0..(p_n - 1) : Cardinality(Holders(idx)) = 1

\* a series was split into three or more slices
TargetPartitionWitness == p_pc = "done" /\ Len(p_ranges) >= 3

\* C10 as stated: K = min(C, ceil(N / max(1000, N / C))), so K <= C.
ChunkCountCapped ==
    p_pc = "done" =>
       /\ Len(p_ranges)
          = Min(p_cores, CeilDiv(p_n, Max(MIN_CHUNK, p_n \div p_cores)))
       /\ Len(p_ranges) <= p_cores

\* C10 as amended: K = ceil(N / S) with S = max(1000, N div C); K exceeds C
\* exactly when N div C >= 1000 and C does not divide N, and then (for
\* C <= 1000) K = C + 1.
ChunkCount ==
    p_pc = "done" =>
       LET S == Max(MIN_CHUNK, p_n \div p_cores)
           K == Len(p_ranges)
       IN  /\ K = CeilDiv(p_n, S)
           /\ (K > p_cores) <=> (p_n \div p_cores >= MIN_CHUNK /\ p_n % p_cores # 0)
           /\ p_cores <= MIN_CHUNK => K <= p_cores + 1

\* a series was split into more slices than there are cores
ChunkCountWitness == p_pc = "done" /\ Len(p_ranges) > p_cores

\* ------------------------------------------------------------ pool, loader, failures
\* calculate_nsm_occupancy was called: cpu_count was read
Called == n_cores > 0

\* C11: whenever main reached calculate_nsm_occupancy, the pool has exactly
\* min(n_cores, number of chunks) processes, so never more than the cores and
\* never more than the chunks, and at least one; no more chunks are in
\* workers than the pool has processes
PoolSize ==
    Called =>
        /\ pool_size <= n_cores
        /\ pool_size <= Len(chunks)
        /\ (pool_size = n_cores \/ pool_size = Len(chunks))
        /\ pool_size >= 1
        /\ Cardinality(running) <= pool_size

\* more chunks than cores, and every process of the pool holds a chunk
PoolSizeWitness ==
    /\ pc = "pool"
    /\ Len(chunks) > n_cores
    /\ pool_size = n_cores
    /\ Cardinality(running) = pool_size

\* C12: the series the partitioner slices is in ascending position order,
\* whatever the order of the lines of the file
SlicedSeriesAscending == Called => IsSorted(pos_lst)

\* the loading of the file raised
LoadFailed == error # <<>> /\ error[1] \in {"ValueError", "FileNotFoundError"}

\* C13: after n well-formed lines both lists have length n and the i-th pair
\* is the position and the weight of the i-th line
EventsPreserved ==
    ~LoadFailed =>
        /\ Len(pos_lst) = Len(lines)
        /\ Len(val_lst) = Len(lines)
        /\ \A i \in 1..Len(lines) :
              pos_lst[i] = lines[i][2] /\ val_lst[i] = lines[i][3]

\* the part of C13 the loader keeps: one entry per line in file order, the
\* position as written, the weight within single precision of the one written
EventsPreservedSingle ==
    ~LoadFailed =>
        /\ Len(pos_lst) = Len(lines)
        /\ Len(val_lst) = Len(lines)
        /\ \A i \in 1..Len(lines) :
              /\ pos_lst[i] = lines[i][2]
              /\ lines[i][3] <= F32_EXACT => val_lst[i] = lines[i][3]
              /\ Abs(val_lst[i] - lines[i][3]) <= lines[i][3] \div F32_EXACT

\* C14: events carrying different labels are never in the same series: the
\* records loaded into the one series of main carry one label
OneSeriesPerLabel ==
    \A i, j \in 1..Len(lines) :
       (i <= Len(pos_lst) /\ j <= Len(pos_lst)) => lines[i][1] = lines[j][1]

\* C15: a malformed line ends the run with an error at that line: no chunk
\* was built or dispatched, no pool exists and no output file was created,
\* whatever the number of well-formed lines before it
MalformedRecordFatal ==
    (error # <<>> /\ error[1] = "ValueError") =>
        /\ pc = "error"
        /\ error[2] = Len(lines) + 1
        /\ ~Called
        /\ chunks = <<>>
        /\ pool_size = 0
        /\ pending = <<>> /\ running = {} /\ collected = <<>>
        /\ all_results = <<>>
        /\ ~out_exists /\ out_lines = <<>>

\* a malformed line after well-formed ones, its position already appended
MalformedRecordFatalWitness ==
    /\ pc = "error"
    /\ error # <<>> /\ error[1] = "ValueError" /\ error[2] > 1
    /\ Len(pos_lst) > Len(val_lst)

\* the file was read to its end and held no record
EmptyInputEnded ==
    /\ pc \notin {"start", "usage", "read"}
    /\ Len(lines) = 0
    /\ ~LoadFailed

\* C16: a file without events ends the run by a return from main: no pool
\* was created, no chunk was built or evaluated, no output file was written
\* and no exception was raised
EmptyInputClean ==
    EmptyInputEnded =>
        /\ pc = "exit"
        /\ error = <<>>
        /\ ~Called /\ pool_size = 0
        /\ chunks = <<>> /\ collected = <<>>
        /\ chunk_results = <<>> /\ all_results = <<>>
        /\ ~out_exists /\ out_lines = <<>>

\* the run of an empty file, ended
EmptyInputCleanWitness == pc = "exit" /\ EmptyInputEnded

\* C17: a file without events ends the run in an outcome reported to the
\* user: a message was printed or an exception left main
EmptyInputReported == EmptyInputEnded => (log # <<>> \/ error # <<>>)

\* C18: a chunk whose evaluation raised ends the run with that exception:
\* the chunk was evaluated once and by no other worker, the results
\* collected before are dropped and no output file exists
WorkerFailureFatal ==
    failed # {} =>
        /\ pc = "error"
        /\ error # <<>> /\ error[1] = "WorkerError" /\ failed = {error[2]}
        /\ running = {}
        /\ \A i \in 1..Len(collected) : collected[i] \notin failed
        /\ \A i \in 1..Len(pending) : pending[i] \notin failed
        /\ chunk_results = <<>> /\ all_results = <<>>
        /\ ~out_exists /\ out_lines = <<>>

\* a chunk raised after another chunk had been collected
WorkerFailureFatalWitness == failed # {} /\ collected # <<>> /\ pc = "error"

\* C19: the output file exists, or holds a line, only when every chunk
\* dispatched was collected: none is pending, none is in a worker
BarrierBeforeOutput ==
    (out_exists \/ out_lines # <<>>) =>
        /\ pending = <<>>
        /\ running = {}
        /\ Len(collected) = Len(chunks)
        /\ \A k \in 1..Len(chunks) : \E i \in 1..Len(collected) : collected[i] = k

\* the file was written by a run of several chunks
BarrierBeforeOutputWitness == out_exists /\ Len(chunks) > 1 /\ out_lines # <<>>

\* C20: under fair scheduling, once the chunks are dispatched either a chunk
\* fails or every chunk is evaluated and the sorted output is written
Completion ==
    (pc = "pool") ~>
        \/ pc = "error"
        \/ /\ pc = "done"
           /\ Len(collected) = Len(chunks)
           /\ out_exists
           /\ IsSorted([i \in 1..Len(out_lines) |-> out_lines[i][3]])

\* a run of more chunks than the pool has processes wrote its output
CompletionWitness == pc = "done" /\ Len(chunks) > pool_size /\ out_exists

\* ------------------------------------------------------------ output layout
\* the text of the output file: one formatted line per written record
OutText == [i \in 1..Len(out_lines) |-> FormatLine(out_lines[i])]

\* C21: every sorted result (p, s) is written as one line, which ends at its
\* only newline and splits at its tabs into five fields: the label, p - 1,
\* p, an empty field and s; the second field is one less than the third
RecordLayout ==
    pc = "done" =>
       /\ Len(OutText) = Len(all_results)
       /\ \A i \in 1..Len(OutText) :
             LET line == OutText[i]
                 fields == SplitAt(Chomp(line), TAB)
             IN  /\ Len(SelectSeq(line, LAMBDA t : t = NL)) = 1
                 /\ line[Len(line)] = NL
                 /\ Len(fields) = 5
                 /\ fields[1] = <<Word(chr_name)>>
                 /\ fields[2] = <<Number(all_results[i][1] - 1)>>
                 /\ fields[3] = <<Number(all_results[i][1])>>
                 /\ fields[4] = <<>>
                 /\ fields[5] = <<Number(all_results[i][2])>>
                 /\ fields[2][1].num = fields[3][1].num - 1

\* a run wrote several lines
RecordLayoutWitness == pc = "done" /\ Len(OutText) >= 2 /\ Len(OutText) = Len(pos_lst)

\* ------------------------------------------------------------ kernel symmetry
\* C22: for a context of a single event at x with weight w, process_chunk
\* scores the targets x - d and x + d alike for every d from 0 to 73, with
\* the weight times the kernel term of the distance d
KernelSymmetry ==
    pc = "kernel_done" =>
       LET x == chunks[1].positions[1]
           w == chunks[1].values[1]
           d == x - chunks[1].chunk_positions[1]
       IN  d <= WINDOW_SIZE =>
              /\ Len(chunk_results) = 2
              /\ chunk_results[1][1] = x - d
              /\ chunk_results[2][1] = x + d
              /\ chunk_results[1][2] = chunk_results[2][2]
              /\ chunk_results[1][2] = w * ExpTable[d + 1]

\* the two targets at the edge of the window were scored
KernelSymmetryWitness ==
    /\ pc = "kernel_done"
    /\ chunks[1].positions[1] - chunks[1].chunk_positions[1] = WINDOW_SIZE
    /\ Len(chunk_results) = 2
    /\ chunk_results[1][2] > 0

\* ------------------------------------------------------------ duplicates, contexts, order
\* the lines written for the position p, as indices
LinesAt(p) == {r \in 1..Len(out_lines) : out_lines[r][3] = p}

\* the events of the series at the position p, as indices
EventsAt(p) == {i \in 1..Len(pos_lst) : pos_lst[i] = p}

\* C23: when several events share a position p, a finished run wrote one
\* line for each of them, and every written score whose window contains p
\* sums the terms of all events of the series in its window, each of the
\* events at p with its own weight
DuplicatesBody ==
    pc = "done" =>
       \A p \in PosSet :
          Cardinality(EventsAt(p)) >= 2 =>
             /\ Cardinality(LinesAt(p)) = Cardinality(EventsAt(p))
             /\ \A r \in 1..Len(out_lines) :
                   Abs(out_lines[r][3] - p) <= WINDOW_SIZE =>
                      out_lines[r][5] = Occupancy(pos_lst, val_lst, out_lines[r][3])
DuplicatesContribute == DuplicatesBody

\* the same on a series in ascending position order
DuplicatesContributeSorted == SeriesSorted => DuplicatesBody

\* the smallest and the largest element of a non-empty sequence
MinOf(seq) == CHOOSE m \in {seq[i] : i \in 1..Len(seq)} : \A i \in 1..Len(seq) : m <= seq[i]
MaxOf(seq) == CHOOSE m \in {seq[i] : i \in 1..Len(seq)} : \A i \in 1..Len(seq) : m >= seq[i]

\* C25: the context of a chunk whose targets span [minPos, maxPos] holds
\* exactly the events of the series with position in [minPos - 73,
\* maxPos + 73], each with its weight and as often as the series holds it,
\* and nothing else
ExactContextBody ==
    Partitioned =>
       \A k \in 1..Len(chunks) :
          LET c == chunks[k]
              lo == MinOf(c.chunk_positions) - WINDOW_SIZE
              hi == MaxOf(c.chunk_positions) + WINDOW_SIZE
          IN  /\ Len(c.positions) = Len(c.values)
              /\ \A i \in 1..Len(c.positions) :
                    /\ lo <= c.positions[i] /\ c.positions[i] <= hi
                    /\ CountEvent(c.positions, c.values, c.positions[i], c.values[i])
                       = CountEvent(pos_lst, val_lst, c.positions[i], c.values[i])
              /\ \A i \in 1..Len(pos_lst) :
                    (lo <= pos_lst[i] /\ pos_lst[i] <= hi) =>
                       CountEvent(c.positions, c.values, pos_lst[i], val_lst[i])
                       = CountEvent(pos_lst, val_lst, pos_lst[i], val_lst[i])
ExactContext == ExactContextBody

\* the same on a series in ascending position order
ExactContextSorted == SeriesSorted => ExactContextBody

\* C26: a finished run on a file whose positions are not in ascending order
\* wrote one line per event, every position as often as it was read, and
\* every score is the sum over the events of the whole series within 73
UnsortedInput ==
    (pc = "done" /\ ~SeriesSorted) =>
       /\ Len(out_lines) = Len(pos_lst)
       /\ \A p \in PosSet : Cardinality(LinesAt(p)) = Cardinality(EventsAt(p))
       /\ \A r \in 1..Len(out_lines) :
             out_lines[r][5] = Occupancy(pos_lst, val_lst, out_lines[r][3])

\* the 1-based index in the series of the j-th target of the k-th chunk
RECURSIVE TargetsBefore(_)
TargetsBefore(k) ==
    IF k <= 1 THEN 0 ELSE TargetsBefore(k - 1) + Len(chunks[k - 1].chunk_positions)
SeriesIndex(k, j) == TargetsBefore(k) + j

\* C27: in a run on a series in ascending position order every target of
\* every chunk has its own event in its window, so process_chunk returns a
\* record for every target, and every written score is the weight of an
\* event at the target, with kernel term 1, plus the terms of the others
OwnEventInWindow ==
    SeriesSorted =>
       /\ Partitioned =>
             \A k \in 1..Len(chunks) :
                /\ Len(process_chunk(chunks[k])) = Len(chunks[k].chunk_positions)
                /\ \A j \in 1..Len(chunks[k].chunk_positions) :
                      LET p == chunks[k].chunk_positions[j]
                          m == Mask(chunks[k].positions, p, WINDOW_SIZE)
                      IN  /\ pos_lst[SeriesIndex(k, j)] = p
                          /\ \E a \in 1..Len(m) :
                                /\ chunks[k].positions[m[a]] = p
                                /\ chunks[k].values[m[a]] = val_lst[SeriesIndex(k, j)]
       /\ pc = "done" =>
             /\ Len(out_lines) = Len(pos_lst)
             /\ \A r \in 1..Len(out_lines) :
                   \E i \in EventsAt(out_lines[r][3]) :
                      out_lines[r][5]
                      = val_lst[i] * ExpTable[1]
                        + SumOver(InWindow(pos_lst, out_lines[r][3]) \ {i},
                                  TermAt(pos_lst, val_lst, out_lines[r][3]))

\* a run on an ascending series of several chunks wrote a score that is the
\* weight of the target's own event alone
OwnEventInWindowWitness ==
    /\ pc = "done"
    /\ SeriesSorted
    /\ Len(chunks) >= 2
    /\ \E r \in 1..Len(out_lines) :
          /\ Cardinality(InWindow(pos_lst, out_lines[r][3])) = 1
          /\ out_lines[r][5] = val_lst[CHOOSE i \in EventsAt(out_lines[r][3]) : TRUE] * ExpTable[1]

\* ------------------------------------------------------------ frame, sizing, aggregation
\* C24: once the file is read, no step of the run changes the loaded
\* positions or weights, neither the building of the chunks nor an
\* evaluation nor the aggregation, and once the chunks are built no step
\* changes the context or the targets of any chunk
ReadOnlyData ==
    [][/\ (pc \in {"pool", "done", "exit"} \/ (pc = "read" /\ pc' \in {"pool", "exit"}))
          => (pos_lst' = pos_lst /\ val_lst' = val_lst)
       /\ pc = "pool" => chunks' = chunks]_vars

\* a run of several chunks ended with the series as it was read
ReadOnlyDataWitness ==
    /\ pc = "done"
    /\ Len(chunks) >= 2
    /\ Len(collected) = Len(chunks)
    /\ pos_lst = [i \in 1..Len(lines) |-> lines[i][2]]
    /\ chunks = BuildChunks(pos_lst, val_lst, n_cores, MinChunk)

\* the chunk size the real floor gives
ChunkSize == IF p_n \div p_cores >= MIN_CHUNK THEN p_n \div p_cores ELSE MIN_CHUNK

\* C28: with S = max(1000, N div C) every slice but the last holds S
\* targets, the last holds between 1 and S, none is empty, and for
\* N <= 1000 there is one slice whatever C is
ChunkSizing ==
    p_pc = "done" =>
       /\ Len(p_ranges) >= 1
       /\ \A k \in 1..(Len(p_ranges) - 1) : p_ranges[k][2] - p_ranges[k][1] = ChunkSize
       /\ LET last == p_ranges[Len(p_ranges)]
          IN  last[2] - last[1] >= 1 /\ last[2] - last[1] <= ChunkSize
       /\ p_n <= MIN_CHUNK => Len(p_ranges) = 1

\* a series was split into full slices and a shorter last one
ChunkSizingWitness ==
    /\ p_pc = "done"
    /\ Len(p_ranges) >= 2
    /\ p_ranges[Len(p_ranges)][2] - p_ranges[Len(p_ranges)][1] < ChunkSize

\* the result lists of the first n collected chunks, one after the other
RECURSIVE InCollectedOrder(_)
InCollectedOrder(n) ==
    IF n = 0 THEN <<>>
    ELSE InCollectedOrder(n - 1) \o process_chunk(chunks[collected[n]])

\* C29: while the results are collected, all_results is the result lists of
\* the collected chunks one after the other, whole and in the order in
\* which they were yielded; no chunk is collected twice, and when none is
\* pending or in a worker every chunk was collected once; the sort keeps
\* these records
ExactlyOnce ==
    /\ pc = "pool" =>
          /\ all_results = InCollectedOrder(Len(collected))
          /\ \A a, b \in 1..Len(collected) : collected[a] = collected[b] => a = b
          /\ (pending = <<>> /\ running = {}) =>
                \A k \in 1..Len(chunks) : \E a \in 1..Len(collected) : collected[a] = k
    /\ pc = "done" =>
          /\ all_results = SortByPos(InCollectedOrder(Len(collected)))
          /\ Len(all_results) = Len(InCollectedOrder(Len(collected)))

\* every chunk of a run was collected, the second before the first
ExactlyOnceWitness ==
    /\ pc = "pool"
    /\ pending = <<>> /\ running = {}
    /\ Len(collected) >= 3
    /\ collected[1] > collected[2]
    /\ Len(all_results) = Len(pos_lst)

\* ------------------------------------------------------------ normalisers
\* the score of the i-th record of the input file, as the engine wrote it:
\* the fifth of its tab-separated fields
EngineScore(i) == SplitAt(Chomp(n_in[i]), TAB)[5][1].num

\* the sum of the scores of the first n records of the input file
RECURSIVE TotalScore(_)
TotalScore(n) == IF n = 0 THEN 0 ELSE TotalScore(n - 1) + EngineScore(n)

\* the i-th line written is the i-th record with its first three fields
\* unchanged and the score divided by the mean of all scores
Normalised(i) ==
    LET fin == SplitAt(Chomp(n_in[i]), TAB)
        fout == SplitAt(Chomp(n_out[i]), TAB)
    IN  /\ SplitSpace(n_in[i])[4] = fin[5]
        /\ Len(fout) = 4
        /\ \A f \in 1..3 : fout[f] = fin[f]
        /\ fout[4] = <<Quotient(EngineScore(i) * Len(n_in), TotalScore(Len(n_in)))>>
        /\ n_out[i][Len(n_out[i])] = NL

\* C30 as stated: a normaliser run on an engine file has, when it ends, one line
\* written per record, in the order of the file, each with the score
\* divided by the mean of all scores
NormalisersWriteAll ==
    n_pc \in {"done", "error"} =>
       /\ Len(n_out) = Len(n_in)
       /\ \A i \in 1..Len(n_in) : Normalised(i)

\* C30 as amended: on an engine file with at least one record and scores
\* that do not sum to 0, both normalisers write one line per record, in the
\* order of the file, with the fourth whitespace-separated field, which is
\* the engine's score, divided by the mean of all scores and the three
\* fields before it unchanged; on a file without records or with scores
\* that sum to 0 both end with an exception and write no line
NormalisersWrite ==
    /\ n_avg = <<0, 0>> \/ n_avg = <<TotalScore(Len(n_in)), Len(n_in)>>
    /\ n_pc = "write" =>
          /\ Len(n_out) = n_i - 1
          /\ \A i \in 1..Len(n_out) : Normalised(i)
    /\ n_pc = "done" =>
          /\ Len(n_in) >= 1 /\ TotalScore(Len(n_in)) # 0
          /\ Len(n_out) = Len(n_in)
          /\ \A i \in 1..Len(n_in) : Normalised(i)
    /\ n_pc = "error" =>
          /\ Len(n_in) = 0 \/ TotalScore(Len(n_in)) = 0
          /\ n_out = <<>>
          /\ n_err # <<>>
    /\ (n_pc # "off" /\ (Len(n_in) = 0 \/ TotalScore(Len(n_in)) = 0)) => n_pc # "done"

\* a file of several records with different scores was normalised
NormalisersWriteWitness ==
    /\ n_pc = "done"
    /\ Len(n_out) >= 2
    /\ EngineScore(1) # EngineScore(2)

====
